---- MODULE Spec2Model ----
(***************************************************************************)
(* NUROX V6.3: the usage limiter (services/usage_limiter.py), the tables   *)
(* it works on (database/models.py), the SQLAlchemy sessions it runs in    *)
(* (database/connection.py), the /debate handler (main.py), the admin     *)
(* plan change and disable (admin/routes.py) and the registration          *)
(* (auth/routes.py).                                                       *)
(*                                                                         *)
(* Time is in seconds.  A session is modelled by what SQLAlchemy keeps for *)
(* it: per row an identity-map entry with the attribute values in memory   *)
(* (cur) and the values last loaded from the database (orig).  A flush     *)
(* writes the columns whose value differs from the loaded one; a commit    *)
(* expires every entry (expire_on_commit is left at its default); a query  *)
(* that finds a row already in the identity map returns the object as it   *)
(* is in memory (autoflush=False, no populate_existing).                   *)
(***************************************************************************)
EXTENDS Integers, Sequences, FiniteSets, TLC

VARIABLES
    clock,        \* datetime.utcnow()
    user_plan,    \* users.plan, per user
    has_row,      \* whether usage_tracking holds a row for the user
    usage,        \* the usage_tracking row of the user (when has_row)
    pc,           \* per caller: its position in check_and_consume
    cuser,        \* per caller: the user argument
    cplan,        \* per caller: the local plan
    cnow,         \* per caller: the local now of _reset_windows
    sess,         \* per caller: self.db, the identity map by user
    broken,       \* per caller: self.db needs a rollback (a flush failed)
    outcome,      \* per caller: how its last call ended
    snapshot,     \* per caller: the dict its last successful call returned
    ncalls,       \* calls started
    nsucc,        \* per user: calls that committed their increment
    succ_at,      \* per user and instant: calls admitted with that now
    replanned,    \* per user: whether the admin changed the plan
    dpc,          \* the /debate request in flight: its position
    duser,        \* the /debate request in flight: current_user
    llm_calls,    \* per user: outbound call_llm requests made
    history,      \* per user: debate_history rows
    ndebates,     \* /debate requests received
    detail,       \* per caller: the detail of the HTTPException it raised last
    is_active,    \* users.is_active, per user
    registered    \* whether users holds a row for the user

vars == << clock, user_plan, has_row, usage, pc, cuser, cplan, cnow, sess,
           broken, outcome, snapshot, ncalls, nsucc, succ_at, replanned,
           dpc, duser, llm_calls, history, ndebates, detail, is_active,
           registered >>

limiterVars == << pc, cuser, cplan, cnow, sess, broken, outcome, snapshot, ncalls,
                  detail >>
debateVars  == << dpc, duser, llm_calls, history, ndebates >>

-----------------------------------------------------------------------------
(* Bounds of the model *)

MaxCalls == 4          \* calls started under Spec
MaxCallsSeq == 5       \* calls started under SpecSeq
MaxCallsGiven == 2     \* calls started under SpecGiven
MaxCallsRace == 5      \* calls started under SpecRace
MaxCallsApp == 2       \* calls started under SpecApp
MaxDebates == 2        \* /debate requests received under SpecApp
MaxCallsPlans == 2     \* calls started under SpecPlans
MaxCallsSkew == 4      \* calls started under SpecSkew
MaxCallsUsers == 3     \* calls started under SpecUsers
MaxCallsStale == 5     \* calls started under SpecStale

Users == {"u1", "u2"}
Procs == {"p1", "p2"}

-----------------------------------------------------------------------------
(* timedelta(minutes=1), timedelta(hours=24), timedelta(days=30) *)

MINUTE == 60
DAY == 86400
MONTH == 2592000

\* The instants at which the model admits calls.
TimePoints == {0, 30, 60, 61, DAY, MONTH}

-----------------------------------------------------------------------------
(* database/models.py *)

Plans == {"free", "pro", "enterprise"}

PLAN_LIMITS ==
    [ free       |-> [daily_debates |-> 5,   monthly_debates |-> 50,   rate_per_minute |-> 3],
      pro        |-> [daily_debates |-> 100, monthly_debates |-> 2000, rate_per_minute |-> 20],
      enterprise |-> [daily_debates |-> -1,  monthly_debates |-> -1,   rate_per_minute |-> 100] ]

\* A usage_tracking row as the INSERT writes it: the column defaults.
UsageTracking(now) ==
    [ debates_today        |-> 0,
      daily_reset_at       |-> now,
      debates_this_month   |-> 0,
      monthly_reset_at     |-> now,
      requests_this_minute |-> 0,
      minute_window_start  |-> now,
      total_debates        |-> 0 ]

Columns == DOMAIN UsageTracking(0)

-----------------------------------------------------------------------------
(* The session *)

\* An identity-map entry: absent, or the object with its loaded values.
NoObj == [loaded |-> FALSE, cur |-> UsageTracking(0), orig |-> UsageTracking(0)]

Load(row) == [loaded |-> TRUE, cur |-> row, orig |-> row]

EmptySession == [u \in Users |-> NoObj]

\* The UPDATE a flush emits for one object: the columns that changed.
FlushRow(row, obj) ==
    [c \in Columns |-> IF obj.loaded /\ obj.cur[c] # obj.orig[c] THEN obj.cur[c] ELSE row[c]]

\* The flush of a session: every dirty object of its identity map.
Flush(s) == [u \in Users |-> IF has_row[u] THEN FlushRow(usage[u], s[u]) ELSE usage[u]]

-----------------------------------------------------------------------------
(* services/usage_limiter.py *)

\* The plan with every unknown value taken for free.
PlanOf_permissive(u) == IF user_plan[u] \in Plans THEN user_plan[u] ELSE "free"

\* user.plan or "free"
PlanOf(u) == IF user_plan[u] = "null" THEN "free" ELSE user_plan[u]

\* Elapsed with the distance taken in either direction.
Elapsed_abs(now, start, length) == now - start >= length \/ start - now >= length

\* One window of _reset_windows: the test that it has run out.
Elapsed(now, start, length) == now - start >= length

_reset_windows(tracking, now) ==
    LET d == Elapsed(now, tracking.daily_reset_at, DAY)
        m == Elapsed(now, tracking.monthly_reset_at, MONTH)
        r == Elapsed(now, tracking.minute_window_start, MINUTE)
    IN  [ debates_today        |-> IF d THEN 0 ELSE tracking.debates_today,
          daily_reset_at       |-> IF d THEN now ELSE tracking.daily_reset_at,
          debates_this_month   |-> IF m THEN 0 ELSE tracking.debates_this_month,
          monthly_reset_at     |-> IF m THEN now ELSE tracking.monthly_reset_at,
          requests_this_minute |-> IF r THEN 0 ELSE tracking.requests_this_minute,
          minute_window_start  |-> IF r THEN now ELSE tracking.minute_window_start,
          total_debates        |-> tracking.total_debates ]

\* The rate test letting one request more through.
RateExceeded_strict(tracking, limits) ==
    tracking.requests_this_minute > limits.rate_per_minute

\* The three tests of check_and_consume, in the order of the code.
RateExceeded(tracking, limits) ==
    tracking.requests_this_minute >= limits.rate_per_minute

\* The daily test without the test for -1.
DailyExceeded_unguarded(tracking, limits) ==
    tracking.debates_today >= limits.daily_debates

DailyExceeded(tracking, limits) ==
    limits.daily_debates # -1 /\ tracking.debates_today >= limits.daily_debates

MonthlyExceeded(tracking, limits) ==
    limits.monthly_debates # -1 /\ tracking.debates_this_month >= limits.monthly_debates

\* The tests with the daily one moved before the rate one.
CheckLimits_daily_first(tracking, limits) ==
    IF DailyExceeded(tracking, limits) THEN "daily_limit_exceeded"
    ELSE IF RateExceeded(tracking, limits) THEN "rate_limit_exceeded"
    ELSE IF MonthlyExceeded(tracking, limits) THEN "monthly_limit_exceeded"
    ELSE "ok"

CheckLimits(tracking, limits) ==
    IF RateExceeded(tracking, limits) THEN "rate_limit_exceeded"
    ELSE IF DailyExceeded(tracking, limits) THEN "daily_limit_exceeded"
    ELSE IF MonthlyExceeded(tracking, limits) THEN "monthly_limit_exceeded"
    ELSE "ok"

\* All good: consume one unit.
Consume(tracking) ==
    [ tracking EXCEPT !.debates_today        = @ + 1,
                      !.debates_this_month   = @ + 1,
                      !.requests_this_minute = @ + 1,
                      !.total_debates        = @ + 1 ]

\* The detail of the 429 raised by each test (lines 52-56, 64-71, 79-86).
\* The message is kept as the pieces the f-string puts together.
RateDetail(tracking, limits, plan) ==
    [ error   |-> "rate_limit_exceeded",
      message |-> << "Slow down! Max", limits.rate_per_minute,
                     "requests/minute on", plan, "plan." >>,
      upgrade |-> plan # "enterprise" ]

DailyDetail(tracking, limits, plan) ==
    [ error     |-> "daily_limit_exceeded",
      message   |-> << "Daily limit of", limits.daily_debates,
                       "debates reached on", plan, "plan." >>,
      used      |-> tracking.debates_today,
      limit     |-> limits.daily_debates,
      resets_in |-> "24 hours",
      upgrade   |-> plan # "enterprise" ]

MonthlyDetail(tracking, limits, plan) ==
    [ error     |-> "monthly_limit_exceeded",
      message   |-> << "Monthly limit of", limits.monthly_debates,
                       "debates reached on", plan, "plan." >>,
      used      |-> tracking.debates_this_month,
      limit     |-> limits.monthly_debates,
      resets_in |-> "30 days",
      upgrade   |-> plan # "enterprise" ]

ErrorDetail(res, tracking, limits, plan) ==
    IF res = "rate_limit_exceeded" THEN RateDetail(tracking, limits, plan)
    ELSE IF res = "daily_limit_exceeded" THEN DailyDetail(tracking, limits, plan)
    ELSE MonthlyDetail(tracking, limits, plan)

NoDetail == [error |-> "none"]

QuotaErrors == {"rate_limit_exceeded", "daily_limit_exceeded", "monthly_limit_exceeded"}

NoSnapshot == [plan |-> "none", used_today |-> 0, daily_limit |-> 0,
               used_monthly |-> 0, monthly_limit |-> 0]

\* check_and_consume, lines 42-43: the plan and its limits; an unknown plan
\* raises KeyError before the session is touched.
Begin(p, u) ==
    /\ pc[p] = "idle"
    /\ ncalls' = ncalls + 1
    /\ cuser' = [cuser EXCEPT ![p] = u]
    /\ cplan' = [cplan EXCEPT ![p] = PlanOf(u)]
    /\ IF PlanOf(u) \in DOMAIN PLAN_LIMITS
       THEN /\ pc' = [pc EXCEPT ![p] = "query"]
            /\ outcome' = [outcome EXCEPT ![p] = "running"]
       ELSE /\ pc' = pc
            /\ outcome' = [outcome EXCEPT ![p] = "key_error"]
    /\ UNCHANGED << clock, user_plan, has_row, usage, cnow, sess, broken, snapshot,
                    nsucc, succ_at, replanned, debateVars,
                    detail, is_active, registered >>

\* _get_tracking, line 18: the SELECT.  A row already in the identity map
\* is returned as it is in memory.
Query(p) ==
    LET u == cuser[p] IN
    /\ pc[p] = "query"
    /\ IF broken[p]
       THEN /\ pc' = [pc EXCEPT ![p] = "idle"]
            /\ outcome' = [outcome EXCEPT ![p] = "session_error"]
            /\ sess' = sess
       ELSE IF has_row[u]
       THEN /\ pc' = [pc EXCEPT ![p] = "reset"]
            /\ sess' = [sess EXCEPT ![p][u] = IF @.loaded THEN @ ELSE Load(usage[u])]
            /\ outcome' = outcome
       ELSE /\ pc' = [pc EXCEPT ![p] = "insert"]
            /\ sess' = sess
            /\ outcome' = outcome
    /\ UNCHANGED << clock, user_plan, has_row, usage, cuser, cplan, cnow, broken,
                    snapshot, ncalls, nsucc, succ_at, replanned, debateVars,
                    detail, is_active, registered >>

\* _get_tracking, lines 20-22: add and commit.  The commit flushes the whole
\* session; the unique constraint on user_id rejects a second row.
InsertCommit(p) ==
    LET u == cuser[p] IN
    /\ pc[p] = "insert"
    /\ IF has_row[u]
       THEN /\ pc' = [pc EXCEPT ![p] = "idle"]
            /\ outcome' = [outcome EXCEPT ![p] = "integrity_error"]
            /\ broken' = [broken EXCEPT ![p] = TRUE]
            /\ UNCHANGED << has_row, usage, sess >>
       ELSE /\ pc' = [pc EXCEPT ![p] = "refresh"]
            /\ has_row' = [has_row EXCEPT ![u] = TRUE]
            /\ usage' = [Flush(sess[p]) EXCEPT ![u] = UsageTracking(clock)]
            /\ sess' = [sess EXCEPT ![p] = EmptySession]
            /\ UNCHANGED << outcome, broken >>
    /\ UNCHANGED << clock, user_plan, cuser, cplan, cnow, snapshot, ncalls,
                    nsucc, succ_at, replanned, debateVars,
                    detail, is_active, registered >>

\* _get_tracking, line 23: refresh reloads the row.
Refresh(p) ==
    LET u == cuser[p] IN
    /\ pc[p] = "refresh"
    /\ pc' = [pc EXCEPT ![p] = "reset"]
    /\ sess' = [sess EXCEPT ![p][u] = Load(usage[u])]
    /\ UNCHANGED << clock, user_plan, has_row, usage, cuser, cplan, cnow, broken,
                    outcome, snapshot, ncalls, nsucc, succ_at, replanned, debateVars,
                    detail, is_active, registered >>

\* check_and_consume, lines 46-93: the resets, the three tests and the
\* increments, all on the object in memory.  A raise leaves the object as
\* _reset_windows changed it: nothing rolls the session back.
ResetAndCheck(p) ==
    LET u      == cuser[p]
        limits == PLAN_LIMITS[cplan[p]]
        t      == _reset_windows(sess[p][u].cur, clock)
        res    == CheckLimits(t, limits)
    IN
    /\ pc[p] = "reset"
    /\ cnow' = [cnow EXCEPT ![p] = clock]
    /\ IF res = "ok"
       THEN /\ sess' = [sess EXCEPT ![p][u].cur = Consume(t)]
            /\ pc' = [pc EXCEPT ![p] = "commit"]
            /\ outcome' = outcome
            /\ detail' = detail
       ELSE /\ sess' = [sess EXCEPT ![p][u].cur = t]
            /\ pc' = [pc EXCEPT ![p] = "idle"]
            /\ outcome' = [outcome EXCEPT ![p] = res]
            /\ detail' = [detail EXCEPT ![p] = ErrorDetail(res, t, limits, cplan[p])]
    /\ UNCHANGED << clock, user_plan, has_row, usage, cuser, cplan, broken,
                    snapshot, ncalls, nsucc, succ_at, replanned, debateVars,
                    is_active, registered >>

\* check_and_consume, line 94: the commit.  It flushes the session and
\* expires its objects.
Commit(p) ==
    LET u == cuser[p] IN
    /\ pc[p] = "commit"
    /\ usage' = Flush(sess[p])
    /\ sess' = [sess EXCEPT ![p] = EmptySession]
    /\ pc' = [pc EXCEPT ![p] = "return"]
    /\ nsucc' = [nsucc EXCEPT ![u] = @ + 1]
    /\ succ_at' = [succ_at EXCEPT ![u][cnow[p]] = @ + 1]
    /\ UNCHANGED << clock, user_plan, has_row, cuser, cplan, cnow, broken, outcome,
                    snapshot, ncalls, replanned, debateVars,
                    detail, is_active, registered >>

\* The dict with what is left of each limit in place of what is used.
Snapshot_remaining(plan, limits, tracking) ==
    [ plan          |-> plan,
      used_today    |-> limits.daily_debates - tracking.debates_today,
      daily_limit   |-> limits.daily_debates,
      used_monthly  |-> limits.monthly_debates - tracking.debates_this_month,
      monthly_limit |-> limits.monthly_debates ]

\* Lines 96-102: the dict, from the local plan and limits and the
\* attributes of tracking.
Snapshot(plan, limits, tracking) ==
    [ plan          |-> plan,
      used_today    |-> tracking.debates_today,
      daily_limit   |-> limits.daily_debates,
      used_monthly  |-> tracking.debates_this_month,
      monthly_limit |-> limits.monthly_debates ]

\* check_and_consume, lines 96-102: the returned dict.  Reading an attribute
\* of the expired object reloads the row.
Return(p) ==
    LET u      == cuser[p]
        limits == PLAN_LIMITS[cplan[p]]
    IN
    /\ pc[p] = "return"
    /\ sess' = [sess EXCEPT ![p][u] = Load(usage[u])]
    /\ snapshot' = [snapshot EXCEPT ![p] = Snapshot(cplan[p], limits, usage[u])]
    /\ outcome' = [outcome EXCEPT ![p] = "ok"]
    /\ pc' = [pc EXCEPT ![p] = "idle"]
    /\ UNCHANGED << clock, user_plan, has_row, usage, cuser, cplan, cnow, broken,
                    ncalls, nsucc, succ_at, replanned, debateVars,
                    detail, is_active, registered >>

\* get_db: the request's session is closed when the request ends.
CloseSession(p) ==
    /\ pc[p] = "idle"
    /\ sess[p] # EmptySession \/ broken[p]
    /\ sess' = [sess EXCEPT ![p] = EmptySession]
    /\ broken' = [broken EXCEPT ![p] = FALSE]
    /\ UNCHANGED << clock, user_plan, has_row, usage, pc, cuser, cplan, cnow,
                    outcome, snapshot, ncalls, nsucc, succ_at, replanned, debateVars,
                    detail, is_active, registered >>

check_and_consume(p, U, max) ==
    \/ \E u \in U : ncalls < max /\ Begin(p, u)
    \/ Query(p)
    \/ InsertCommit(p)
    \/ Refresh(p)
    \/ ResetAndCheck(p)
    \/ Commit(p)
    \/ Return(p)

-----------------------------------------------------------------------------
(* admin/routes.py *)

\* admin_upgrade_user: only free, pro and enterprise pass line 100.
admin_upgrade_user(u, plan) ==
    /\ plan \in {"free", "pro", "enterprise"}
    /\ registered[u]
    /\ user_plan[u] # plan
    /\ user_plan' = [user_plan EXCEPT ![u] = plan]
    /\ replanned' = [replanned EXCEPT ![u] = TRUE]
    /\ UNCHANGED << clock, has_row, usage, limiterVars, nsucc, succ_at, debateVars,
                    is_active, registered >>

\* admin_disable_user deleting the usage_tracking row of the user as well.
admin_disable_user_deleting(u) ==
    /\ registered[u]
    /\ is_active[u]
    /\ is_active' = [is_active EXCEPT ![u] = FALSE]
    /\ has_row' = [has_row EXCEPT ![u] = FALSE]
    /\ UNCHANGED << clock, user_plan, usage, limiterVars, nsucc, succ_at,
                    replanned, debateVars, registered >>

\* admin_disable_user: is_active is the only column written.
admin_disable_user(u) ==
    /\ registered[u]
    /\ is_active[u]
    /\ is_active' = [is_active EXCEPT ![u] = FALSE]
    /\ UNCHANGED << clock, user_plan, has_row, usage, limiterVars, nsucc, succ_at,
                    replanned, debateVars, registered >>

-----------------------------------------------------------------------------
(* auth/routes.py *)

\* register: a users row with the column defaults; a taken name is
\* answered 400.
register(u) ==
    /\ ~registered[u]
    /\ registered' = [registered EXCEPT ![u] = TRUE]
    /\ user_plan' = [user_plan EXCEPT ![u] = "free"]
    /\ is_active' = [is_active EXCEPT ![u] = TRUE]
    /\ UNCHANGED << clock, has_row, usage, limiterVars, nsucc, succ_at,
                    replanned, debateVars >>

-----------------------------------------------------------------------------
(* main.py: the /debate handler *)

\* Lines 176-181: an empty question is answered 400.
DebateRequest(u, empty) ==
    /\ dpc = "idle"
    /\ registered[u]
    /\ ndebates < MaxDebates
    /\ ndebates' = ndebates + 1
    /\ duser' = u
    /\ dpc' = IF empty THEN "idle" ELSE "builder"
    /\ UNCHANGED << clock, user_plan, has_row, usage, limiterVars, nsucc, succ_at,
                    replanned, llm_calls, history,
                    is_active, registered >>

\* Lines 183-188: the builder pass, the first outbound call_llm.  A status
\* other than 200 raises HTTPException(500).
CallBuilder(ok) ==
    /\ dpc = "builder"
    /\ llm_calls' = [llm_calls EXCEPT ![duser] = @ + 1]
    /\ dpc' = IF ok THEN "auditor" ELSE "idle"
    /\ UNCHANGED << clock, user_plan, has_row, usage, limiterVars, nsucc, succ_at,
                    replanned, duser, history, ndebates,
                    is_active, registered >>

\* Lines 217-222: the auditor pass.
CallAuditor(ok) ==
    /\ dpc = "auditor"
    /\ llm_calls' = [llm_calls EXCEPT ![duser] = @ + 1]
    /\ dpc' = IF ok THEN "save" ELSE "idle"
    /\ UNCHANGED << clock, user_plan, has_row, usage, limiterVars, nsucc, succ_at,
                    replanned, duser, history, ndebates,
                    is_active, registered >>

\* Lines 228-238: the DebateHistory row, in a session of its own.
SaveHistory ==
    /\ dpc = "save"
    /\ history' = [history EXCEPT ![duser] = @ + 1]
    /\ dpc' = "idle"
    /\ UNCHANGED << clock, user_plan, has_row, usage, limiterVars, nsucc, succ_at,
                    replanned, duser, llm_calls, ndebates,
                    is_active, registered >>

debate(U) ==
    \/ \E u \in U, empty \in BOOLEAN : DebateRequest(u, empty)
    \/ \E ok \in BOOLEAN : CallBuilder(ok)
    \/ \E ok \in BOOLEAN : CallAuditor(ok)
    \/ SaveHistory

-----------------------------------------------------------------------------
(* The clock *)

Tick(T) ==
    /\ \E t \in T : t > clock /\ clock' = t
    /\ UNCHANGED << user_plan, has_row, usage, limiterVars, nsucc, succ_at,
                    replanned, debateVars,
                    is_active, registered >>

-----------------------------------------------------------------------------
(* Specifications *)

\* What every specification starts from: no call in flight, no session open.
InitCallers ==
    /\ pc = [p \in Procs |-> "idle"]
    /\ cuser = [p \in Procs |-> "u1"]
    /\ cplan = [p \in Procs |-> "free"]
    /\ cnow = [p \in Procs |-> 0]
    /\ sess = [p \in Procs |-> EmptySession]
    /\ broken = [p \in Procs |-> FALSE]
    /\ outcome = [p \in Procs |-> "none"]
    /\ snapshot = [p \in Procs |-> NoSnapshot]
    /\ ncalls = 0
    /\ replanned = [u \in Users |-> FALSE]
    /\ dpc = "idle"
    /\ duser = "u1"
    /\ llm_calls = [u \in Users |-> 0]
    /\ history = [u \in Users |-> 0]
    /\ ndebates = 0
    /\ detail = [p \in Procs |-> NoDetail]
    /\ is_active = [u \in Users |-> TRUE]

\* Registered users (plan defaults to free) with no usage_tracking row.
Init ==
    /\ InitCallers
    /\ registered = [u \in Users |-> TRUE]
    /\ clock = 0
    /\ user_plan = [u \in Users |-> "free"]
    /\ has_row = [u \in Users |-> FALSE]
    /\ usage = [u \in Users |-> UsageTracking(0)]
    /\ nsucc = [u \in Users |-> 0]
    /\ succ_at = [u \in Users |-> [t \in TimePoints |-> 0]]

\* Concurrent callers for one user, the admin changing the plan.
Next ==
    \/ \E p \in Procs : check_and_consume(p, {"u1"}, MaxCalls)
    \/ \E p \in Procs : CloseSession(p)
    \/ \E plan \in {"free", "pro"} : admin_upgrade_user("u1", plan)
    \/ Tick({61})

Spec == Init /\ [][Next]_vars

\* One caller, one call after the other, on a fixed plan.
NextSeq ==
    \/ check_and_consume("p1", {"u1"}, MaxCallsSeq)
    \/ CloseSession("p1")
    \/ Tick(TimePoints)

SpecSeq == Init /\ [][NextSeq]_vars

\* One registered user with no usage_tracking row, one name not yet taken.
InitApp ==
    /\ InitCallers
    /\ registered = [u \in Users |-> u = "u1"]
    /\ clock = 0
    /\ user_plan = [u \in Users |-> "free"]
    /\ has_row = [u \in Users |-> FALSE]
    /\ usage = [u \in Users |-> UsageTracking(0)]
    /\ nsucc = [u \in Users |-> 0]
    /\ succ_at = [u \in Users |-> [t \in TimePoints |-> 0]]

\* The /debate handler, registration and the admin beside the limiter.
NextApp ==
    \/ debate({"u1"})
    \/ check_and_consume("p1", {"u1"}, MaxCallsApp)
    \/ CloseSession("p1")
    \/ \E plan \in Plans : admin_upgrade_user("u1", plan)
    \/ admin_disable_user("u1")
    \/ register("u2")
    \/ Tick({61})

SpecApp == InitApp /\ [][NextApp]_vars

\* At 61 s: a user with no row yet, or with a record one call old whose
\* minute window has run out (inserted at 0, one call admitted at 0).
InitRace ==
    /\ InitCallers
    /\ registered = [u \in Users |-> TRUE]
    /\ clock = 61
    /\ user_plan = [u \in Users |-> "free"]
    /\ \E old \in BOOLEAN :
          /\ has_row = [u \in Users |-> old /\ u = "u1"]
          /\ usage = [u \in Users |-> IF old /\ u = "u1" THEN Consume(UsageTracking(0))
                                      ELSE UsageTracking(0)]
          /\ nsucc = [u \in Users |-> IF old /\ u = "u1" THEN 1 ELSE 0]
          /\ succ_at = [u \in Users |-> [t \in TimePoints |->
                          IF old /\ u = "u1" /\ t = 0 THEN 1 ELSE 0]]

\* Concurrent callers for that user while the admin upgrades the plan.
NextRace ==
    \/ \E p \in Procs : check_and_consume(p, {"u1"}, MaxCallsRace)
    \/ \E p \in Procs : CloseSession(p)
    \/ admin_upgrade_user("u1", "pro")

SpecRace == InitRace /\ [][NextRace]_vars

\* The records check_and_consume is given under SpecGiven.  A row is either
\* as the INSERT left it or has every counter at 1 or more (each commit
\* adds 1 to all four); a counter above the limit is what a downgrade
\* leaves, so the top plan has none.  Starts are given as ages at clock 0.
CounterSeeds(plan, limit) ==
    IF limit = -1 THEN {1, 10000}
    ELSE {1, limit - 1, limit} \cup (IF plan = "enterprise" THEN {} ELSE {limit + 1})

MinuteAges == {10, 60, 61}
DailyAges == {10, DAY}
MonthlyAges == {10, MONTH}

\* A window that began no later than another has counted every call the
\* other counted.
Coherent(r) ==
    /\ r.daily_reset_at <= r.minute_window_start
          => r.debates_today >= r.requests_this_minute
    /\ r.monthly_reset_at <= r.daily_reset_at
          => r.debates_this_month >= r.debates_today
    /\ r.monthly_reset_at <= r.minute_window_start
          => r.debates_this_month >= r.requests_this_minute

GivenRecords(plan) ==
    LET l == PLAN_LIMITS[plan] IN
    { r \in [ debates_today        : CounterSeeds(plan, l.daily_debates),
              daily_reset_at       : {0 - a : a \in DailyAges},
              debates_this_month   : CounterSeeds(plan, l.monthly_debates),
              monthly_reset_at     : {0 - a : a \in MonthlyAges},
              requests_this_minute : CounterSeeds(plan, l.rate_per_minute),
              minute_window_start  : {0 - a : a \in MinuteAges},
              total_debates        : {20000} ] : Coherent(r) }

\* A user on any plan with no row, a fresh row or a used row.
InitGiven ==
    /\ InitCallers
    /\ registered = [u \in Users |-> TRUE]
    /\ clock = 0
    /\ \E plan \in Plans :
          /\ user_plan = [u \in Users |-> IF u = "u1" THEN plan ELSE "free"]
          /\ \/ /\ has_row = [u \in Users |-> FALSE]
                /\ usage = [u \in Users |-> UsageTracking(0)]
             \/ /\ has_row = [u \in Users |-> u = "u1"]
                /\ \E r \in GivenRecords(plan) \cup {UsageTracking(-10)} :
                      usage = [u \in Users |-> IF u = "u1" THEN r ELSE UsageTracking(0)]
    /\ nsucc = [u \in Users |-> IF has_row[u] THEN usage[u].total_debates ELSE 0]
    /\ succ_at = [u \in Users |-> [t \in TimePoints |-> 0]]

\* One caller with its session, kept or closed between calls.
NextGiven ==
    \/ check_and_consume("p1", {"u1"}, MaxCallsGiven)
    \/ CloseSession("p1")
    \/ Tick({61})

SpecGiven == InitGiven /\ [][NextGiven]_vars

\* The values of users.plan check_and_consume is given under SpecPlans: unset,
\* a plan of the catalog, a value the catalog does not know.
GivenPlans == {"null", "free", "gold"}

\* A user with any such plan and no row, a fresh row or a used row.
InitPlans ==
    /\ InitCallers
    /\ registered = [u \in Users |-> TRUE]
    /\ clock = 0
    /\ \E plan \in GivenPlans :
          user_plan = [u \in Users |-> IF u = "u1" THEN plan ELSE "free"]
    /\ \/ /\ has_row = [u \in Users |-> FALSE]
          /\ usage = [u \in Users |-> UsageTracking(0)]
       \/ /\ has_row = [u \in Users |-> u = "u1"]
          /\ \E r \in GivenRecords("free") \cup {UsageTracking(-10)} :
                usage = [u \in Users |-> IF u = "u1" THEN r ELSE UsageTracking(0)]
    /\ nsucc = [u \in Users |-> IF has_row[u] THEN usage[u].total_debates ELSE 0]
    /\ succ_at = [u \in Users |-> [t \in TimePoints |-> 0]]

NextPlans ==
    \/ check_and_consume("p1", {"u1"}, MaxCallsPlans)
    \/ CloseSession("p1")
    \/ Tick({61})

SpecPlans == InitPlans /\ [][NextPlans]_vars

\* datetime.utcnow() is the wall clock: it can be set back.
Skew(T) ==
    /\ \E t \in T : t # clock /\ clock' = t
    /\ UNCHANGED << user_plan, has_row, usage, limiterVars, nsucc, succ_at,
                    replanned, debateVars, is_active, registered >>

\* One caller under a clock that moves either way.
NextSkew ==
    \/ check_and_consume("p1", {"u1"}, MaxCallsSkew)
    \/ CloseSession("p1")
    \/ Skew({0, 30, 61})

SpecSkew == Init /\ [][NextSkew]_vars

\* Two free users: u1 with no row, a fresh row or a record at the rate
\* limit in a running minute window; u2 with no row or a fresh row.
InitUsers ==
    /\ InitCallers
    /\ registered = [u \in Users |-> TRUE]
    /\ clock = 0
    /\ user_plan = [u \in Users |-> "free"]
    /\ \E h1, h2 \in BOOLEAN :
          /\ has_row = [u \in Users |-> IF u = "u1" THEN h1 ELSE h2]
          /\ \E r \in { g \in GivenRecords("free") :
                          /\ g.requests_this_minute = PLAN_LIMITS.free.rate_per_minute
                          /\ g.minute_window_start = -10 } \cup {UsageTracking(-10)} :
                usage = [u \in Users |-> IF u = "u1" /\ h1 THEN r
                                         ELSE IF u = "u2" /\ h2 THEN UsageTracking(-10)
                                         ELSE UsageTracking(0)]
    /\ nsucc = [u \in Users |-> IF has_row[u] THEN usage[u].total_debates ELSE 0]
    /\ succ_at = [u \in Users |-> [t \in TimePoints |-> 0]]

\* Callers serving both users, each caller through its session.
NextUsers ==
    \/ \E p \in Procs : check_and_consume(p, Users, MaxCallsUsers)
    \/ \E p \in Procs : CloseSession(p)
    \/ Tick({61})

SpecUsers == InitUsers /\ [][NextUsers]_vars

\* A free user with no row yet, or with a record one call and 60 s old.
InitStale ==
    /\ InitCallers
    /\ registered = [u \in Users |-> TRUE]
    /\ clock = 0
    /\ user_plan = [u \in Users |-> "free"]
    /\ \E old \in BOOLEAN :
          /\ has_row = [u \in Users |-> old /\ u = "u1"]
          /\ usage = [u \in Users |-> IF old /\ u = "u1"
                                      THEN Consume(UsageTracking(0 - MINUTE))
                                      ELSE UsageTracking(0)]
          /\ nsucc = [u \in Users |-> IF old /\ u = "u1" THEN 1 ELSE 0]
    /\ succ_at = [u \in Users |-> [t \in TimePoints |-> 0]]

\* Concurrent callers for that user, each keeping or closing its session,
\* over the next minute.
NextStale ==
    \/ \E p \in Procs : check_and_consume(p, {"u1"}, MaxCallsStale)
    \/ \E p \in Procs : CloseSession(p)
    \/ Tick({30, 60})

SpecStale == InitStale /\ [][NextStale]_vars

-----------------------------------------------------------------------------
(* Counting the calls admitted *)

RECURSIVE SumAt(_, _)
SumAt(f, S) ==
    IF S = {} THEN 0
    ELSE LET t == CHOOSE x \in S : TRUE IN f[t] + SumAt(f, S \ {t})

\* The calls admitted for u with a call time in [from, to).
Admitted(u, from, to) ==
    SumAt(succ_at[u], {t \in TimePoints : from <= t /\ t < to})

AllIdle == \A p \in Procs : pc[p] = "idle"

-----------------------------------------------------------------------------
(* C1 *)

\* C1: no over-admission under concurrency.  For a user whose plan never
\* changed, the calls admitted with a call time inside the minute window on
\* record never number more than rate_per_minute: of the concurrent calls
\* made when k units remain, only k succeed.
C1_NoOverAdmission ==
    \A u \in Users :
        (has_row[u] /\ ~replanned[u]) =>
            Admitted(u, usage[u].minute_window_start,
                        usage[u].minute_window_start + MINUTE)
                <= PLAN_LIMITS[PlanOf(u)].rate_per_minute

-----------------------------------------------------------------------------
(* Steps and states of a call *)

\* The step that commits the increment of p's call.
CommitStep(p) == pc[p] = "commit" /\ pc'[p] = "return"

\* The step in which p's call resets the windows and tests the limits.
ResetStep(p) == pc[p] = "reset" /\ pc'[p] # "reset"

\* The step in which p's call raises a quota error.
FailStep(p) == pc[p] = "reset" /\ pc'[p] = "idle"

\* p's last call raised a quota error and its session still holds the
\* tracking object as the call left it: the record after the resets.
FailedOn(p) ==
    /\ pc[p] = "idle"
    /\ outcome[p] \in QuotaErrors
    /\ sess[p][cuser[p]].loaded

WindowStarts == {"daily_reset_at", "monthly_reset_at", "minute_window_start"}

\* A limit is violated by a record: the counter has reached it.
OverRate(r, plan) ==
    r.requests_this_minute >= PLAN_LIMITS[plan].rate_per_minute

OverDaily(r, plan) ==
    PLAN_LIMITS[plan].daily_debates # -1
        /\ r.debates_today >= PLAN_LIMITS[plan].daily_debates

OverMonthly(r, plan) ==
    PLAN_LIMITS[plan].monthly_debates # -1
        /\ r.debates_this_month >= PLAN_LIMITS[plan].monthly_debates

-----------------------------------------------------------------------------
(* C2 *)

\* C2: quota gates the chargeable work.  Every request that reaches the LLM
\* has had its quota check committed first: the outbound calls made for a
\* user (two a request at most) are covered by that user's admitted checks.
C2_QuotaGatesLLM ==
    \A u \in Users : llm_calls[u] <= 2 * nsucc[u]

-----------------------------------------------------------------------------
(* C3 *)

\* C3: a failed check changes nothing.  The failing call writes nothing,
\* and no later commit on its session writes a window start the failing
\* call computed: a commit leaves each window start as it was or sets it
\* to the time of the committing call.
C3_FailedCheckPersistsNothing ==
    [][ \A p \in Procs :
          /\ FailStep(p) => usage' = usage
          /\ CommitStep(p) =>
                \A c \in WindowStarts :
                    usage'[cuser[p]][c] \in {usage[cuser[p]][c], cnow[p]} ]_vars

-----------------------------------------------------------------------------
(* C4 *)

\* C4: precedence is rate, then daily, then monthly.  On the record after
\* the resets, a violated rate limit is the one reported whatever else is
\* violated, a violated daily limit is reported when the rate limit passes,
\* and the monthly error is reported only when both others pass.
C4_Precedence ==
    \A p \in Procs :
        FailedOn(p) =>
            LET r    == sess[p][cuser[p]].cur
                plan == cplan[p]
            IN  /\ OverRate(r, plan) <=> outcome[p] = "rate_limit_exceeded"
                /\ (~OverRate(r, plan) /\ OverDaily(r, plan))
                      <=> outcome[p] = "daily_limit_exceeded"
                /\ outcome[p] = "monthly_limit_exceeded"
                      => (~OverRate(r, plan) /\ ~OverDaily(r, plan) /\ OverMonthly(r, plan))

\* A call over the daily and the monthly limit at once failed with the
\* daily error.
C4_Witness ==
    \E p \in Procs :
        /\ FailedOn(p)
        /\ outcome[p] = "daily_limit_exceeded"
        /\ OverMonthly(sess[p][cuser[p]].cur, cplan[p])

-----------------------------------------------------------------------------
(* C5 *)

\* C5: total_debates equals the number of successful calls since the record
\* was created, whatever resets and failed calls came in between.
C5_TotalCountsSuccesses ==
    \A u \in Users : has_row[u] => usage[u].total_debates = nsucc[u]

-----------------------------------------------------------------------------
(* C6 *)

\* C6: per-user linearizability.  A call that is about to write has read
\* the record as the last committed increment left it: no committed
\* increment lies between its read and its write.
C6_NoLostUpdate ==
    \A p \in Procs :
        pc[p] = "commit" =>
            sess[p][cuser[p]].orig.total_debates = usage[cuser[p]].total_debates

-----------------------------------------------------------------------------
(* C7 *)

\* C7: idempotent lazy creation.  No first call ends in a duplicate-insert
\* failure: every call ends with success or a quota error.
C7_NoDuplicateInsertFailure ==
    \A p \in Procs : outcome[p] # "integrity_error"

-----------------------------------------------------------------------------
(* C9 *)

WithinLimit(used, limit) == used >= 1 /\ (limit # -1 => used <= limit)

\* C9: immediately after a successful call the persisted counters are at
\* least 1 and at most the limits of the plan the call used (a limit of -1
\* bounds nothing), and no counter is negative.
C9_CountersWithinLimits ==
    [][ \A p \in Procs :
          CommitStep(p) =>
             LET r == usage'[cuser[p]]
                 l == PLAN_LIMITS[cplan[p]]
             IN  /\ WithinLimit(r.debates_today, l.daily_debates)
                 /\ WithinLimit(r.debates_this_month, l.monthly_debates)
                 /\ WithinLimit(r.requests_this_minute, l.rate_per_minute)
                 /\ r.total_debates >= 1 ]_vars

-----------------------------------------------------------------------------
(* C8 *)

\* The calls admitted for u with a call time of from or later.
AdmittedSince(u, from) ==
    SumAt(succ_at[u], {t \in TimePoints : from <= t})

-----------------------------------------------------------------------------
(* C10 *)

\* The three windows: counter, start, length and the limit that bounds it.
Windows ==
    { [counter |-> "requests_this_minute", start |-> "minute_window_start",
       length |-> MINUTE, limit |-> "rate_per_minute"],
      [counter |-> "debates_today", start |-> "daily_reset_at",
       length |-> DAY, limit |-> "daily_debates"],
      [counter |-> "debates_this_month", start |-> "monthly_reset_at",
       length |-> MONTH, limit |-> "monthly_debates"] }

\* The counter of window w once an elapsed window is reset.
CountAfterReset(r, w, now) ==
    IF now - r[w.start] >= w.length THEN 0 ELSE r[w.counter]

\* Window w is at its limit and has run out, and no other limit is violated
\* once the windows are reset.
AtLimitAndElapsed(r, w, now, plan) ==
    /\ r[w.counter] = PLAN_LIMITS[plan][w.limit]
    /\ now - r[w.start] >= w.length
    /\ \A o \in Windows \ {w} :
          \/ PLAN_LIMITS[plan][o.limit] = -1
          \/ CountAfterReset(r, o, now) < PLAN_LIMITS[plan][o.limit]

\* C10: an elapsed window is reset before the limits are checked.  A call
\* made when the user's record has a window at its limit and run out, no
\* other limit violated after the resets, succeeds with that counter at 1
\* and that window started at the time of the call, and its commit
\* persists the record so.
C10_ResetBeforeCheck ==
    [][ \A p \in Procs :
          LET u == cuser[p] IN
          /\ ResetStep(p) =>
                \A w \in Windows :
                    AtLimitAndElapsed(usage[u], w, clock, cplan[p]) =>
                        /\ pc'[p] = "commit"
                        /\ sess'[p][u].cur[w.counter] = 1
                        /\ sess'[p][u].cur[w.start] = clock
          /\ CommitStep(p) => usage'[u] = sess[p][u].cur ]_vars

-----------------------------------------------------------------------------
(* C11 *)

\* C11: a limit of -1 is unlimited and never checked.  No call made on the
\* enterprise plan ends with the daily or the monthly error, whatever
\* debates_today and debates_this_month are; its only quota failure is the
\* rate error.
C11_UnlimitedNeverChecked ==
    \A p \in Procs :
        (pc[p] = "idle" /\ cplan[p] = "enterprise" /\ outcome[p] \in QuotaErrors)
            => outcome[p] = "rate_limit_exceeded"

\* A call on the enterprise plan was admitted with debates_today and
\* debates_this_month at 10000 and their windows still running.
C11_Witness ==
    \E p \in Procs :
        /\ pc[p] = "idle"
        /\ outcome[p] = "ok"
        /\ cplan[p] = "enterprise"
        /\ usage[cuser[p]].debates_today > 10000
        /\ usage[cuser[p]].debates_this_month > 10000

-----------------------------------------------------------------------------
(* C12 *)

\* The limit a quota error is about and the counter it bounds.
LimitOf(err) ==
    IF err = "rate_limit_exceeded" THEN "rate_per_minute"
    ELSE IF err = "daily_limit_exceeded" THEN "daily_debates"
    ELSE "monthly_debates"

CounterOf(err) ==
    IF err = "rate_limit_exceeded" THEN "requests_this_minute"
    ELSE IF err = "daily_limit_exceeded" THEN "debates_today"
    ELSE "debates_this_month"

\* C12: every quota error carries the name of the violated limit, the
\* limit value, the amount used and the upgrade flag, which is true exactly
\* when the plan is not enterprise.
C12_ErrorCarriesUsedAndLimit ==
    \A p \in Procs :
        FailedOn(p) =>
            LET d == detail[p]
                r == sess[p][cuser[p]].cur
            IN  /\ d.error = outcome[p]
                /\ "limit" \in DOMAIN d
                /\ d.limit = PLAN_LIMITS[cplan[p]][LimitOf(outcome[p])]
                /\ "used" \in DOMAIN d
                /\ d.used = r[CounterOf(outcome[p])]
                /\ "upgrade" \in DOMAIN d
                /\ d.upgrade = (cplan[p] # "enterprise")

-----------------------------------------------------------------------------
(* C13 *)

\* users.plan holds a value that is neither unset nor a plan of the catalog.
UnknownPlan(u) == user_plan[u] \notin Plans \cup {"null"}

\* C13: an unrecognized plan is never silently permissive.  A call for a
\* user whose plan is not free, pro or enterprise ends with the error raised
\* to the caller, admits nothing and neither creates nor changes the
\* user's record; a call for a user whose plan is unset runs on the limits
\* of the free plan.
C13_UnknownPlanRejected ==
    [][ \A p \in Procs :
          LET u == cuser'[p] IN
          /\ UnknownPlan(u) =>
                /\ pc'[p] = "idle"
                /\ outcome'[p] \in {"none", "key_error"}
                /\ has_row'[u] = has_row[u]
                /\ usage'[u] = usage[u]
                /\ nsucc'[u] = nsucc[u]
          /\ (user_plan[u] = "null" /\ pc'[p] # "idle") => cplan'[p] = "free" ]_vars

\* A call for a user with an unknown plan and a used record ended with the
\* error, the record as it was.
C13_Witness ==
    \E p \in Procs :
        /\ UnknownPlan(cuser[p])
        /\ outcome[p] = "key_error"
        /\ has_row[cuser[p]]
        /\ usage[cuser[p]].total_debates = nsucc[cuser[p]]
        /\ ncalls >= 1

-----------------------------------------------------------------------------
(* C14 *)

WindowCounters == {"debates_today", "debates_this_month", "requests_this_minute"}

\* C14: consumed quota is never refunded.  No step takes a unit back:
\* total_debates never decreases, and a windowed counter stays, grows by 1
\* with a successful check, or restarts from 0 with its window's reset (so
\* is 0, or 1 once the resetting call has counted itself).
C14_NeverRefunded ==
    [][ \A u \in Users :
          (has_row[u] /\ has_row'[u]) =>
              /\ usage'[u].total_debates >= usage[u].total_debates
              /\ \A c \in WindowCounters :
                    usage'[u][c] \in {usage[u][c], usage[u][c] + 1, 0, 1} ]_vars

-----------------------------------------------------------------------------
(* C15 *)

\* C15: the post-state of a successful check.  The commit of a call made
\* at now leaves the user's record as the reset policy applied to the
\* record at now and then the four increments give it: each windowed
\* counter is 1 if its window had run out and its previous value plus 1
\* otherwise, each window start is now if the window had run out and
\* unchanged otherwise, each window decided by itself, and total_debates
\* is 1 more.
C15_PostStateOfSuccess ==
    [][ \A p \in Procs :
          CommitStep(p) =>
              usage'[cuser[p]] = Consume(_reset_windows(usage[cuser[p]], cnow[p])) ]_vars

-----------------------------------------------------------------------------
(* C16 *)

\* The limit of window w on a plan is reached by record r.
LimitReached(r, w, plan) ==
    /\ PLAN_LIMITS[plan][w.limit] # -1
    /\ r[w.counter] >= PLAN_LIMITS[plan][w.limit]

\* C16: no reset on negative elapsed time.  A call made at a time earlier
\* than a window's start leaves that start as it is and does not zero the
\* counter: the counter is judged as it stands (the call fails when it has
\* reached the limit), grows by 1 only if the call passes, and never goes
\* below 0.
C16_NoResetOnNegativeElapsed ==
    [][ \A p \in Procs :
          LET u == cuser[p]
              r == sess[p][u].cur
          IN  ResetStep(p) =>
                \A w \in Windows :
                    clock < r[w.start] =>
                        /\ sess'[p][u].cur[w.start] = r[w.start]
                        /\ sess'[p][u].cur[w.counter] =
                              r[w.counter] + (IF pc'[p] = "commit" THEN 1 ELSE 0)
                        /\ sess'[p][u].cur[w.counter] >= 0
                        /\ LimitReached(r, w, cplan[p]) =>
                              (pc'[p] = "idle" /\ outcome'[p] \in QuotaErrors) ]_vars

\* A call made 61 s before the start of the minute window failed on the
\* rate limit, the counter and the start as they were.
C16_Witness ==
    \E p \in Procs :
        /\ FailedOn(p)
        /\ outcome[p] = "rate_limit_exceeded"
        /\ sess[p][cuser[p]].cur.minute_window_start - cnow[p] >= 61
        /\ sess[p][cuser[p]].cur.requests_this_minute
              = PLAN_LIMITS[cplan[p]].rate_per_minute

-----------------------------------------------------------------------------
(* C17 *)

\* A step of p's call.
CallStep(p) == pc'[p] # pc[p] \/ outcome'[p] # outcome[p]

\* C17: users are isolated.  No step of a call made for one user creates
\* or changes the usage record of another user.
C17_UsersIsolated ==
    [][ \A p \in Procs :
          CallStep(p) =>
              \A b \in Users \ {cuser'[p]} :
                  /\ has_row'[b] = has_row[b]
                  /\ usage'[b] = usage[b] ]_vars

-----------------------------------------------------------------------------
(* C18 *)

\* C18: only the quota enforcer writes usage records.  A step that is not
\* a step of check_and_consume (a plan change, a disable, a registration,
\* a step of /debate) creates, changes and deletes no record, and no step
\* at all deletes one.
C18_OnlyEnforcerWrites ==
    [][ /\ (\A p \in Procs : ~CallStep(p)) =>
               (has_row' = has_row /\ usage' = usage)
        /\ \A u \in Users : has_row[u] => has_row'[u] ]_vars

\* A user with a used record was moved to another plan and disabled, a
\* debate of theirs was saved and another user registered: the record still
\* counts every admitted call, the newcomer has none.
C18_Witness ==
    /\ has_row["u1"]
    /\ replanned["u1"]
    /\ ~is_active["u1"]
    /\ history["u1"] >= 1
    /\ usage["u1"].total_debates = nsucc["u1"]
    /\ nsucc["u1"] >= 1
    /\ registered["u2"]
    /\ ~has_row["u2"]

-----------------------------------------------------------------------------
(* C19 *)

\* The step in which p's call returns its snapshot.
ReturnStep(p) == pc[p] = "return" /\ pc'[p] = "idle"

\* C19: the snapshot of a successful call.  It names the plan the check
\* used and that plan's limits from the catalog, and its used_today and
\* used_monthly are the persisted debates_today and debates_this_month,
\* each 1 at least.
C19_SnapshotReportsRecord ==
    [][ \A p \in Procs :
          ReturnStep(p) =>
              LET s == snapshot'[p]
                  r == usage'[cuser[p]]
              IN  /\ outcome'[p] = "ok"
                  /\ s.plan = cplan[p]
                  /\ s.daily_limit = PLAN_LIMITS[cplan[p]].daily_debates
                  /\ s.monthly_limit = PLAN_LIMITS[cplan[p]].monthly_debates
                  /\ s.used_today = r.debates_today
                  /\ s.used_monthly = r.debates_this_month
                  /\ s.used_today >= 1
                  /\ s.used_monthly >= 1 ]_vars

\* A call checked on the free plan returned after the user was moved to
\* pro: its snapshot names free and the limits of free.
C19_Witness ==
    \E p \in Procs :
        /\ pc[p] = "idle"
        /\ outcome[p] = "ok"
        /\ snapshot[p].plan = "free"
        /\ snapshot[p].daily_limit = 5
        /\ user_plan[cuser[p]] = "pro"
        /\ snapshot[p].used_today >= 2

-----------------------------------------------------------------------------
(* C20 *)

\* The latest of the three window starts of a record.
LatestStart(r) ==
    CHOOSE s \in {r[c] : c \in WindowStarts} :
        \A c \in WindowStarts : r[c] <= s

\* The minute window among the three.
MinuteWindow ==
    CHOOSE w \in Windows : w.counter = "requests_this_minute"

\* The rate limit is the only limit record r has reached once the daily and
\* the monthly window are reset at now.
BlockedByRateOnly(r, now, plan) ==
    /\ LimitReached(r, MinuteWindow, plan)
    /\ \A o \in Windows \ {MinuteWindow} :
          \/ PLAN_LIMITS[plan][o.limit] = -1
          \/ CountAfterReset(r, o, now) < PLAN_LIMITS[plan][o.limit]

\* C20: no permanent lockout.  Under a clock that never goes back, a call
\* made 30 days or more after the latest window start of the user's record
\* is admitted, and a call made 60 s or more after minute_window_start for
\* a user blocked by the rate limit only is admitted.
C20_NoPermanentLockout ==
    [][ \A p \in Procs :
          LET u == cuser[p]
              r == usage[u]
          IN  ResetStep(p) =>
                /\ clock - LatestStart(r) >= MONTH => pc'[p] = "commit"
                /\ (BlockedByRateOnly(r, clock, cplan[p])
                       /\ clock - r.minute_window_start >= MINUTE)
                      => pc'[p] = "commit" ]_vars

====
